---- MODULE Spec2Model ----
(***************************************************************************)
(* Workflow execution engine of deepface-workflow-editor:                  *)
(*   backend/core/workflow_engine.py   (WorkflowEngine)                    *)
(*   backend/api/routes/execution.py   (run-control surface, run_workflow) *)
(*   backend/schemas/schemas.py        (Workflow, WorkflowNode, ...)       *)
(***************************************************************************)
EXTENDS Integers, Sequences, FiniteSets, TLC

(***************************************************************************)
(* Bounds of the model.                                                    *)
(***************************************************************************)
\* graphs handed to the pure functions (validation, ordering, layering)
MaxNodes == 3
MaxEdges == 3
\* run loops (start and resume requests) per behaviour
MaxRuns == 2
\* largest timestamp of the logical clock of the error log
MaxErrors == 3

(***************************************************************************)
(* Data model (schemas.py).                                                *)
(* A workflow is [nodes : Seq([id, type]), edges : set of                  *)
(* [source, target, targetHandle]].  Node ids are 1..Len(nodes), in        *)
(* insertion order; an edge may name an id that is no node (dangling).     *)
(***************************************************************************)
NodeStatus == {"idle", "running", "completed", "error", "paused"}

ExecutionStatus == {"idle", "running", "completed", "error", "paused"}

NodeTypes == {"video_input", "extract_faces"}

Ports == {"video", "images"}

\* NODE_DEFINITIONS[t].inputs restricted to the ports declared required=True
RequiredInputs(t) == IF t = "extract_faces" THEN {"video"} ELSE {}

NodeIds(wf) == 1 .. Len(wf.nodes)

\* keys of node.inputs: the ports of the node that an edge is connected to
NodeInputs(wf, n) == {e.targetHandle : e \in {x \in wf.edges : x.target = n}}

EmptyWorkflow == [nodes |-> <<>>, edges |-> {}]

(***************************************************************************)
(* Helpers: finite sets as lists, in one fixed order (workflow.edges and   *)
(* dict/list iteration order of the source).                               *)
(***************************************************************************)
RECURSIVE SetToSeq(_)
SetToSeq(S) ==
    IF S = {} THEN <<>>
    ELSE LET x == CHOOSE y \in S : TRUE IN <<x>> \o SetToSeq(S \ {x})

\* the subsets of lo..hi with at most m elements
RECURSIVE IndexSets(_, _, _)
IndexSets(lo, hi, m) ==
    IF m = 0 \/ lo > hi THEN {{}}
    ELSE {{}} \cup UNION {{{x} \cup I : I \in IndexSets(x + 1, hi, m - 1)} : x \in lo .. hi}

\* the subsets of S with at most m elements
SubsetsUpTo(S, m) ==
    LET q == SetToSeq(S)
    IN  {{q[i] : i \in I} : I \in IndexSets(1, Len(q), m)}

EdgeList(wf) == SetToSeq(wf.edges)

(***************************************************************************)
(* WorkflowEngine._has_cycles : depth-first search with a visited set and  *)
(* a recursion stack, started from every node of workflow.nodes.           *)
(* dfs returns [found, visited, rec_stack] (the closure's two sets).       *)
(***************************************************************************)
RECURSIVE dfs(_, _, _, _)
RECURSIVE dfs_edges(_, _, _, _, _)
dfs_edges(wf, node_id, es, visited, rec_stack) ==
    IF es = <<>>
    THEN [found |-> FALSE, visited |-> visited, rec_stack |-> rec_stack]
    ELSE LET edge == Head(es) IN
         IF edge.source # node_id
         THEN dfs_edges(wf, node_id, Tail(es), visited, rec_stack)
         ELSE IF edge.target \in rec_stack
         THEN [found |-> TRUE, visited |-> visited, rec_stack |-> rec_stack]
         ELSE IF edge.target \notin visited
         THEN LET r == dfs(wf, edge.target, visited, rec_stack) IN
              IF r.found THEN r
              ELSE dfs_edges(wf, node_id, Tail(es), r.visited, r.rec_stack)
         ELSE dfs_edges(wf, node_id, Tail(es), visited, rec_stack)

\* dfs without the final rec_stack.remove(node_id)
dfs_no_remove(wf, node_id, visited, rec_stack) ==
    dfs_edges(wf, node_id, EdgeList(wf),
              visited \cup {node_id}, rec_stack \cup {node_id})

dfs(wf, node_id, visited, rec_stack) ==
    LET r == dfs_edges(wf, node_id, EdgeList(wf),
                       visited \cup {node_id}, rec_stack \cup {node_id})
    IN  IF r.found THEN r
        ELSE [found |-> FALSE, visited |-> r.visited,
              rec_stack |-> r.rec_stack \ {node_id}]

RECURSIVE has_cycles_from(_, _, _, _)
has_cycles_from(wf, i, visited, rec_stack) ==
    IF i > Len(wf.nodes) THEN FALSE
    ELSE IF wf.nodes[i].id \in visited
    THEN has_cycles_from(wf, i + 1, visited, rec_stack)
    ELSE LET r == dfs(wf, wf.nodes[i].id, visited, rec_stack) IN
         IF r.found THEN TRUE
         ELSE has_cycles_from(wf, i + 1, r.visited, r.rec_stack)

has_cycles(wf) == has_cycles_from(wf, 1, {}, {})

(***************************************************************************)
(* WorkflowEngine._validate_workflow.  The required-input loop iterates    *)
(* the keys of node.inputs and tests each key against node.inputs itself.  *)
(***************************************************************************)
MissingInputs(wf) ==
    {p \in [node : NodeIds(wf), port : Ports] :
        /\ p.port \in NodeInputs(wf, p.node)
        /\ p.port \notin NodeInputs(wf, p.node)}

validate_workflow(wf) ==
    IF has_cycles(wf)
    THEN [valid |-> FALSE, error |-> "Workflow contains cycles", node |-> 0, port |-> ""]
    ELSE IF MissingInputs(wf) # {}
    THEN LET p == CHOOSE q \in MissingInputs(wf) : TRUE
         IN  [valid |-> FALSE, error |-> "missing required input",
              node |-> p.node, port |-> p.port]
    ELSE [valid |-> TRUE, error |-> "", node |-> 0, port |-> ""]

(***************************************************************************)
(* WorkflowEngine._get_execution_order : Kahn's algorithm.  Indexing the   *)
(* dicts with an id that is no node raises KeyError.                       *)
(***************************************************************************)
in_degree(wf) ==
    [n \in NodeIds(wf) |-> Cardinality({e \in wf.edges : e.target = n})]

\* graph[current]: the targets of current's outgoing edges, in edge order
RECURSIVE graph(_, _)
graph(es, current) ==
    IF es = <<>> THEN <<>>
    ELSE (IF Head(es).source = current THEN <<Head(es).target>> ELSE <<>>)
         \o graph(Tail(es), current)

\* the for-loop over graph[current]: decrement, append when zero
RECURSIVE relax(_, _, _)
relax(nbrs, deg, queue) ==
    IF nbrs = <<>> THEN [deg |-> deg, queue |-> queue]
    ELSE LET nb == Head(nbrs)
             d  == [deg EXCEPT ![nb] = @ - 1]
         IN  relax(Tail(nbrs), d,
                   IF d[nb] = 0 THEN Append(queue, nb) ELSE queue)

RECURSIVE kahn(_, _, _, _)
kahn(wf, queue, deg, result) ==
    IF queue = <<>> THEN result
    ELSE LET current == Head(queue)
             r == relax(graph(EdgeList(wf), current), deg, Tail(queue))
         IN  kahn(wf, r.queue, r.deg, Append(result, current))

Dangling(wf) ==
    {e \in wf.edges : e.source \notin NodeIds(wf) \/ e.target \notin NodeIds(wf)}

get_execution_order(wf) ==
    IF Dangling(wf) # {}
    THEN [ok |-> FALSE, order |-> <<>>, error |-> "KeyError"]
    ELSE LET deg == in_degree(wf)
             q0  == SelectSeq([i \in 1 .. Len(wf.nodes) |-> wf.nodes[i].id],
                              LAMBDA n : deg[n] = 0)
         IN  [ok |-> TRUE, order |-> kahn(wf, q0, deg, <<>>), error |-> ""]

(***************************************************************************)
(* WorkflowEngine._execute_workflow_parallel, first half: the dependency   *)
(* graph and the grouping of the nodes into layers.  The while loop tests  *)
(* dependencies[node] against execution_context["nodes_completed"], which  *)
(* does not change while the layers are computed.                          *)
(***************************************************************************)
dependencies(wf) ==
    [n \in NodeIds(wf) |-> {e.source : e \in {x \in wf.edges : x.target = n}}]

\* a layer that takes every remaining node, whatever it depends on
current_layer_ignoring_dependencies(wf, remaining_nodes, nodes_completed) ==
    remaining_nodes

current_layer(wf, remaining_nodes, nodes_completed) ==
    {n \in remaining_nodes :
        dependencies(wf)[n] = {} \/ dependencies(wf)[n] \subseteq nodes_completed}

\* a loop that ends at the first layer it cannot extend and returns the
\* layers it has
layers_loop_giving_up(wf, remaining_nodes, nodes_completed, acc) ==
    LET cur == current_layer(wf, remaining_nodes, nodes_completed)
    IN  [ok |-> TRUE, layers |-> IF cur = {} THEN acc ELSE Append(acc, cur), error |-> ""]

RECURSIVE layers_loop(_, _, _, _)
layers_loop(wf, remaining_nodes, nodes_completed, acc) ==
    IF remaining_nodes = {} THEN [ok |-> TRUE, layers |-> acc, error |-> ""]
    ELSE LET cur == current_layer(wf, remaining_nodes, nodes_completed) IN
         IF cur = {}
         THEN [ok |-> FALSE, layers |-> <<>>, error |-> "ValueError"]
         ELSE layers_loop(wf, remaining_nodes \ cur, nodes_completed, Append(acc, cur))

layers(wf, nodes_completed) ==
    IF Dangling(wf) # {}
    THEN [ok |-> FALSE, layers |-> <<>>, error |-> "KeyError"]
    ELSE layers_loop(wf, NodeIds(wf), nodes_completed, <<>>)

(***************************************************************************)
(* Bounded families of workflows.  Ids 1..k are the nodes, id k+1 is an id *)
(* of no node.                                                             *)
(***************************************************************************)
EdgeUniverse(k, handles) ==
    [source : 1 .. (k + 1), target : 1 .. (k + 1), targetHandle : handles]

NodeLists(k, types) ==
    {[i \in 1 .. k |-> [id |-> i, type |-> ty[i]]] : ty \in [1 .. k -> types]}

\* the workflows with at most maxNodes nodes and at most maxEdges edges
RECURSIVE WorkflowFamily(_, _, _, _)
WorkflowFamily(maxNodes, maxEdges, types, handles) ==
    LET withMax == {[nodes |-> ns, edges |-> es] :
                       ns \in NodeLists(maxNodes, types),
                       es \in SubsetsUpTo(EdgeUniverse(maxNodes, handles), maxEdges)}
    IN  IF maxNodes = 0 THEN withMax
        ELSE withMax \cup WorkflowFamily(maxNodes - 1, maxEdges, types, handles)

GraphWorkflows == WorkflowFamily(MaxNodes, MaxEdges, {"video_input"}, {"video"})

\* node types and ports varied, on the small graphs
PortWorkflows == WorkflowFamily(2, 1, NodeTypes, Ports)

\* the workflows that are run: the small graphs (every run loop multiplies the
\* state space by the states of a layer in flight)
RunWorkflows == WorkflowFamily(2, 1, {"video_input"}, {"video"})

(***************************************************************************)
(* State.                                                                  *)
(*   workflow            the stored workflow (shared node objects)         *)
(*   loader              what _load_workflow yields: the placeholder of    *)
(*                       workflow_engine.py, or the patched loader of the  *)
(*                       tests, which returns the workflow                 *)
(*   node_status         status / progress fields of workflow.nodes        *)
(*   executions_db       execution.py: execution id -> WorkflowExecution   *)
(*                       (status and error; the message text is left out)  *)
(*   running_executions  engine run table: execution id -> the run loop    *)
(*                       whose context object the entry references, 0 none *)
(*   runs                the run loops (run_workflow / execute_workflow    *)
(*                       invocations) with their execution contexts        *)
(*   at_pause            history: the completed / failed sets of the       *)
(*                       execution when it was last paused or stopped      *)
(*   call                last application of a pure function               *)
(*   emitted             the messages handed to the WebSocketManager       *)
(*                       (send_node_update / send_execution_update)        *)
(*   delivered           per client, the messages sent to its connection   *)
(*   active_connections  WebSocketManager.active_connections (a list)      *)
(*   node_subscriptions  WebSocketManager.node_subscriptions: node id ->   *)
(*                       list of connections (no key: the empty list)      *)
(*   publish             per publishing task, its call of broadcast or     *)
(*                       send_node_update: message, list, position of the  *)
(*                       loop over the list, connection being written to   *)
(*   errors              error_handler.errors (the ErrorInfo records)      *)
(*   response            the answer to the last request of the run-control *)
(*                       surface                                           *)
(*   single              the call of execute_single_node                   *)
(***************************************************************************)
VARIABLES workflow, loader, node_status, executions_db, running_executions,
          runs, at_pause, call, emitted, delivered, active_connections,
          node_subscriptions, publish,
          errors, response, single

vars == <<workflow, loader, node_status, executions_db, running_executions,
          runs, at_pause, call, emitted, delivered, active_connections,
          node_subscriptions, publish,
          errors, response, single>>

\* the event channel
ws_vars == <<emitted, delivered, active_connections, node_subscriptions, publish>>

Clients == {"c1", "c2"}

Range(q) == {q[i] : i \in DOMAIN q}

\* the ids a node update is sent for: the single node of execute_single_node
\* and the nodes of a workflow
NodeKeys == 0 .. MaxNodes

\* the tasks that publish: the run loop (0) and the tasks of the nodes of a
\* layer of two nodes
Publishers == 0 .. 2

NoMessage == [type |-> "none", id |-> 0, status |-> "", progress |-> 0]

\* no call of broadcast / send_node_update made by the task
NoPublish ==
    [pc |-> "idle", k |-> 0, msg |-> NoMessage, list |-> "none", node |-> 0, i |-> 0,
     to |-> "none", disconnected |-> {}, stayed |-> {}, sent |-> <<>>]

node_update(node_id, status, progress) ==
    [type |-> "node_update", id |-> node_id, status |-> status, progress |-> progress]

execution_update(execution_id, status) ==
    [type |-> "execution_update", id |-> execution_id, status |-> status, progress |-> 0]

\* _send_execution_update: the execution update of the run loop, which
\* carries the progress of the execution context
progress_update(execution_id, status, progress) ==
    [type |-> "execution_update", id |-> execution_id, status |-> status,
     progress |-> progress]

\* the connections a message is written to: broadcast for execution updates,
\* the node's subscribers for node updates
recipients(m) ==
    IF m.type = "execution_update" THEN Range(active_connections)
    ELSE Range(node_subscriptions[m.id])

\* send_node_update / send_execution_update for each message of ms, carried
\* out with no change of the lists in between
send(ms) ==
    /\ emitted' = emitted \cup ms
    /\ delivered' = [c \in Clients |-> delivered[c] \cup {m \in ms : c \in recipients(m)}]
    /\ UNCHANGED <<active_connections, node_subscriptions, publish>>

(***************************************************************************)
(* error_handler: the log of ErrorInfo records.  errors is the list        *)
(* ErrorHandler.errors as the set of its records; the timestamps are a     *)
(* logical clock, so the order of the list is the order of the timestamps. *)
(* The id of a record is the pair of the clock's second at its creation    *)
(* and the length of the log, as in err_{%Y%m%d_%H%M%S}_{len(self.errors)};*)
(* a second holds any number of timestamps.                                *)
(* An absent node id or execution id is 0, an absent workflow id "none".   *)
(***************************************************************************)
ErrorSeverity == {"low", "medium", "high", "critical"}

ErrorCategory == {"validation", "execution", "resource", "network", "permission",
                  "configuration", "dependency", "unknown"}

\* ErrorInfo.max_retries: int = 3
max_retries == 3

\* datetime.now() at the creation of the next record
now(errs) ==
    IF errs = {} THEN 1
    ELSE 1 + (CHOOSE t \in {e.timestamp : e \in errs} :
                 \A e \in errs : e.timestamp <= t)

\* datetime.now().strftime('%Y%m%d_%H%M%S') at the creation of the next
\* record: still the second of the newest record, or a later one
seconds(errs) ==
    {now(errs)} \cup {e.id[1] : e \in {f \in errs : f.timestamp + 1 = now(errs)}}

\* handle_error lines 72-86: the record
ErrorInfo(errs, second, severity, category, message, node_id, workflow_id, execution_id, recoverable) ==
    [id |-> <<second, Cardinality(errs)>>, timestamp |-> now(errs),
     severity |-> severity, category |-> category, message |-> message,
     node_id |-> node_id, workflow_id |-> workflow_id, execution_id |-> execution_id,
     recoverable |-> recoverable, retry_count |-> 0, max_retries |-> max_retries]

\* handle_error lines 88-89: the log with the new record appended
append_error(errs, second, severity, category, message, node_id, workflow_id, execution_id, recoverable) ==
    errs \cup {ErrorInfo(errs, second, severity, category, message, node_id, workflow_id,
                         execution_id, recoverable)}

\* handle_error lines 97-99 and _halt_workflow line 134: whether the halt is
\* carried out
halts(severity, halt_workflow, workflow_id, execution_id) ==
    /\ halt_workflow \/ severity = "critical"
    /\ workflow_id # "none"
    /\ execution_id # 0

\* the log after handle_execution_error, as _execute_node_parallel calls it
\* (halt_workflow=False); the records of the run loops are each created in
\* a second of their own
handle_execution_error(errs, node_id, workflow_id, execution_id, message) ==
    append_error(errs, now(errs), "high", "execution", message, node_id, workflow_id,
                 execution_id, TRUE)

(***************************************************************************)
(* WorkflowEngine._create_node_instance: the type tags with a branch; any  *)
(* other tag reaches BaseNode(node), and BaseNode is abstract.             *)
(***************************************************************************)
RecognizedTypes ==
    {"video_input", "extract_faces", "train_model", "merge_faces", "video_output",
     "xseg_editor", "image_resize", "face_filter", "batch_rename"}

\* an instance for every type tag
create_node_instance_any_type(node_type) == "instance"

create_node_instance(node_type) ==
    IF node_type \in RecognizedTypes THEN "instance" ELSE "TypeError"

\* no call of execute_single_node made
NoSingle == [pc |-> "idle"]

Outcomes == {"success", "failure", "raise"}

NoCall == [op |-> "none"]

InitState ==
    /\ loader \in {"placeholder", "patched"}
    /\ node_status = [n \in NodeIds(workflow) |-> [status |-> "idle", progress |-> 0]]
    /\ executions_db = <<>>
    /\ running_executions = [e \in 1 .. MaxRuns |-> 0]
    /\ runs = <<>>
    /\ at_pause = [e \in 1 .. MaxRuns |-> [completed |-> {}, failed |-> {}]]
    /\ call = NoCall
    /\ emitted = {}
    /\ delivered = [c \in Clients |-> {}]
    /\ active_connections = <<>>
    /\ node_subscriptions = [n \in NodeKeys |-> <<>>]
    /\ publish = [p \in Publishers |-> NoPublish]
    /\ errors = {}
    /\ response = [code |-> 0, detail |-> ""]
    /\ single = NoSingle

Init ==
    /\ workflow \in RunWorkflows
    /\ InitState

(***************************************************************************)
(* WorkflowEngine._load_workflow                                           *)
(***************************************************************************)
load_workflow ==
    IF loader = "patched"
    THEN [found |-> TRUE, wf |-> workflow]
    ELSE [found |-> FALSE, wf |-> EmptyWorkflow]

(***************************************************************************)
(* A run loop: one run_workflow background task (origin start / resume),   *)
(* one call of execute_workflow made by WorkflowEngine.resume_execution    *)
(* (origin engine_resume) or made directly on the engine (origin direct),  *)
(* with the execution context it creates.                                  *)
(***************************************************************************)
NewRun(e, origin, skip) ==
    [eid |-> e, origin |-> origin, pc |-> "scheduled", ctx |-> FALSE,
     status |-> "none", progress |-> 0, nodes_completed |-> {}, nodes_failed |-> {},
     layers |-> <<>>, li |-> 0,
     task |-> [n \in NodeIds(workflow) |-> "none"],
     raised |-> {},
     dispatch_count |-> [n \in NodeIds(workflow) |-> 0],
     result |-> "none", error |-> "", skip |-> skip]

\* execute_workflow returns (early return, finalisation or except clause)
Returned(run, result, error) ==
    [run EXCEPT !.pc = "done", !.result = result, !.error = error]

\* finalisation that does not look at nodes_failed
finalize_ignoring_failed(run) ==
    Returned([run EXCEPT !.status = "completed"], "success", "")

\* execute_workflow lines 59-66: finalize execution
finalize(run) ==
    IF run.nodes_failed # {}
    THEN Returned([run EXCEPT !.status = "error"], "failure", "Execution failed at node")
    ELSE Returned([run EXCEPT !.status = "completed"], "success", "")

\* the nodes of a layer whose _create_node_instance raises: their tasks end
\* in the except clause of _execute_node_parallel before anything is awaited
uninstantiable(wf, layer) ==
    {n \in layer : create_node_instance(wf.nodes[n].type) = "TypeError"}

\* _execute_workflow_parallel lines 284-298: top of the loop over the layers;
\* issues every node of the next layer, or leaves the loop
loop_top(run) ==
    IF run.li <= Len(run.layers) /\ run.nodes_failed = {}
    THEN LET bad == uninstantiable(workflow, run.layers[run.li]) IN
         [run EXCEPT
            !.pc = "gather",
            !.task = [n \in DOMAIN run.task |->
                        IF n \in bad THEN "fail"
                        ELSE IF n \in run.layers[run.li] THEN "running" ELSE "none"],
            !.raised = bad,
            !.dispatch_count = [n \in DOMAIN run.task |->
                        IF n \in run.layers[run.li] THEN @[n] + 1 ELSE @[n]]]
    ELSE finalize(run)

\* execute_workflow without the validation step
execute_workflow_unvalidated(run) ==
    LET lw == load_workflow IN
    IF ~lw.found THEN Returned(run, "failure", "Workflow not found")
    ELSE LET c == [run EXCEPT !.ctx = TRUE, !.status = "running",
                              !.nodes_completed = {}, !.nodes_failed = {}]
             L == layers(lw.wf, c.nodes_completed)
         IN  IF ~L.ok THEN Returned(c, "failure", L.error)
             ELSE loop_top([c EXCEPT !.layers = L.layers, !.li = 1])

\* execute_workflow lines 30-57, up to the first gather
execute_workflow(run) ==
    LET lw == load_workflow IN
    IF ~lw.found THEN Returned(run, "failure", "Workflow not found")
    ELSE LET v == validate_workflow(lw.wf) IN
         IF ~v.valid THEN Returned(run, "failure", v.error)
         ELSE LET c == [run EXCEPT !.ctx = TRUE, !.status = "running",
                                   !.nodes_completed = {}, !.nodes_failed = {}]
                  L == layers(lw.wf, c.nodes_completed)
              IN  IF ~L.ok THEN Returned(c, "failure", L.error)
                  ELSE loop_top([c EXCEPT !.layers = L.layers, !.li = 1])

\* a finally clause that leaves the context in the run table
run_table_without_cleanup(table, r, run) ==
    IF run.ctx THEN [table EXCEPT ![run.eid] = r] ELSE table

\* execute_workflow's finally clause, and line 54
run_table(table, r, run) ==
    IF run.pc = "done" THEN [table EXCEPT ![run.eid] = 0]
    ELSE IF run.ctx THEN [table EXCEPT ![run.eid] = r]
    ELSE table

\* run_workflow that records the status of a failed run without its error
run_workflow_status_only(db, run) ==
    IF run.pc # "done" \/ run.origin \notin {"start", "resume"} THEN db
    ELSE IF run.result = "success"
    THEN [db EXCEPT ![run.eid].status = "completed"]
    ELSE [db EXCEPT ![run.eid].status = "error"]

\* run_workflow lines 151-158: the execution record after execute_workflow returned
run_workflow(db, run) ==
    IF run.pc # "done" \/ run.origin \notin {"start", "resume"} THEN db
    ELSE IF run.result = "success"
    THEN [db EXCEPT ![run.eid].status = "completed"]
    ELSE [db EXCEPT ![run.eid].status = "error", ![run.eid].error = run.error]

\* the error message of the failed node n of the run: str(e) of the fault
\* (of _create_node_instance or of execute), or the "error" entry of the result
node_error(wf, run, n) ==
    IF n \in run.raised
    THEN (IF create_node_instance(wf.nodes[n].type) = "TypeError" THEN "TypeError"
          ELSE "fault")
    ELSE "m1"

\* execute_workflow line 62: the error text of the result, as the pieces of
\* the f-string, when list(nodes_failed)[0] is the node n
execution_failed_at(n) == <<"Execution failed at node: ", ToString(n)>>

\* the nodes the run has just issued
dispatched(run) == IF run.pc = "gather" THEN run.layers[run.li] ELSE {}

\* _execute_node_parallel lines 351-356: the running update of each issued
\* node that has an instance
running_updates(run) ==
    {node_update(n, "running", 0) : n \in dispatched(run) \ run.raised}

\* execution_context["workflow_id"]: the id execute_workflow was called with
context_workflow_id(run) ==
    IF run.origin \in {"start", "resume", "engine_resume"}
    THEN executions_db[run.eid].workflow_id
    ELSE "stored"

\* the except clause of _execute_node_parallel for each of the nodes in turn
RECURSIVE log_errors(_, _, _)
log_errors(errs, run, nodes) ==
    IF nodes = {} THEN errs
    ELSE LET n == CHOOSE m \in nodes : \A k \in nodes : m <= k IN
         log_errors(handle_execution_error(errs, n, context_workflow_id(run), run.eid,
                                           "TypeError"),
                    run, nodes \ {n})

\* _execute_node_parallel lines 363-375: the log after the error records of
\* the issued nodes without an instance, in the order of their tasks
creation_errors(errs, run) == log_errors(errs, run, dispatched(run) \cap run.raised)

\* run_workflow lines 141-145: the initial status update
initial_update(run) ==
    IF run.origin \in {"start", "resume"}
    THEN {execution_update(run.eid, executions_db[run.eid].status)}
    ELSE {}

\* run_workflow lines 160-166: the final status update
final_update(db, run) ==
    IF run.pc = "done" /\ run.origin \in {"start", "resume"}
    THEN {execution_update(run.eid, db[run.eid].status)}
    ELSE {}

(***************************************************************************)
(* Run-control surface (execution.py).  response: the status code and, for *)
(* an HTTPException, its detail.                                           *)
(***************************************************************************)
WorkflowIds == {"stored", "unknown"}

\* workflow.py: the ids under which a workflow is stored
workflows_db == {"stored"}

Accepted == [code |-> 200, detail |-> ""]

HTTPException(status_code, detail) == [code |-> status_code, detail |-> detail]

\* a handler that raised its HTTPException before changing anything
rejected(status_code, detail) ==
    /\ response' = HTTPException(status_code, detail)
    /\ UNCHANGED <<workflow, loader, node_status, executions_db, running_executions,
                   runs, at_pause, call, ws_vars, errors, single>>

start_execution(workflow_id) ==
    /\ Len(runs) < MaxRuns
    /\ LET e == Len(executions_db) + 1 IN
       /\ executions_db' = Append(executions_db,
              [workflow_id |-> workflow_id, status |-> "running", error |-> ""])
       /\ runs' = Append(runs, NewRun(e, "start", [completed |-> {}, failed |-> {}]))
    /\ response' = Accepted
    /\ UNCHANGED <<workflow, loader, node_status, running_executions, at_pause, call,
                   ws_vars, errors, single>>

\* history: the sets of the context the run table holds for e
Snapshot(e) ==
    IF running_executions[e] = 0 THEN [completed |-> {}, failed |-> {}]
    ELSE [completed |-> runs[running_executions[e]].nodes_completed,
          failed |-> runs[running_executions[e]].nodes_failed]

\* stop that also accepts an execution that is not running
stop_execution_any_status(e) ==
    IF e \notin DOMAIN executions_db
    THEN rejected(404, "Execution not found")
    ELSE /\ executions_db' = [executions_db EXCEPT ![e].status = "paused"]
         /\ at_pause' = [at_pause EXCEPT ![e] = Snapshot(e)]
         /\ send({execution_update(e, "paused")})
         /\ response' = Accepted
         /\ UNCHANGED <<workflow, loader, node_status, running_executions, runs, call,
                        errors, single>>

stop_execution(e) ==
    IF e \notin DOMAIN executions_db
    THEN rejected(404, "Execution not found")
    ELSE IF executions_db[e].status # "running"
    THEN rejected(400, "Execution is not running")
    ELSE /\ executions_db' = [executions_db EXCEPT ![e].status = "paused"]
         /\ at_pause' = [at_pause EXCEPT ![e] = Snapshot(e)]
         /\ send({execution_update(e, "paused")})
         /\ response' = Accepted
         /\ UNCHANGED <<workflow, loader, node_status, running_executions, runs, call,
                        errors, single>>

pause_execution(e) ==
    IF e \notin DOMAIN executions_db
    THEN rejected(404, "Execution not found")
    ELSE IF executions_db[e].status # "running"
    THEN rejected(400, "Execution is not running")
    ELSE /\ executions_db' = [executions_db EXCEPT ![e].status = "paused"]
         /\ at_pause' = [at_pause EXCEPT ![e] = Snapshot(e)]
         /\ send({execution_update(e, "paused")})
         /\ response' = Accepted
         /\ UNCHANGED <<workflow, loader, node_status, running_executions, runs, call,
                        errors, single>>

resume_execution(e) ==
    IF e \notin DOMAIN executions_db
    THEN rejected(404, "Execution not found")
    ELSE IF executions_db[e].status # "paused"
    THEN rejected(400, "Execution is not paused")
    ELSE /\ Len(runs) < MaxRuns
         /\ executions_db' = [executions_db EXCEPT ![e].status = "running"]
         /\ runs' = Append(runs, NewRun(e, "resume", at_pause[e]))
         /\ send({execution_update(e, "running")})
         /\ response' = Accepted
         /\ UNCHANGED <<workflow, loader, node_status, running_executions, at_pause, call,
                        errors, single>>

get_execution_status(e) ==
    IF e \notin DOMAIN executions_db
    THEN rejected(404, "Execution not found")
    ELSE /\ response' = Accepted
         /\ UNCHANGED <<workflow, loader, node_status, executions_db, running_executions,
                        runs, at_pause, call, ws_vars, errors, single>>

(***************************************************************************)
(* The background task: run_workflow calls execute_workflow, which runs    *)
(* without suspension up to the gather of the first layer (or returns).    *)
(***************************************************************************)
run_begin(r) ==
    /\ r \in DOMAIN runs
    /\ runs[r].pc = "scheduled"
    /\ runs[r].origin \in {"start", "resume"}
    /\ LET run == execute_workflow(runs[r])
           db  == run_workflow(executions_db, run)
       IN  /\ runs' = [runs EXCEPT ![r] = run]
           /\ running_executions' = run_table(running_executions, r, run)
           /\ executions_db' = db
           /\ send(initial_update(runs[r]) \cup running_updates(run) \cup final_update(db, run))
           /\ errors' = creation_errors(errors, run)
    /\ UNCHANGED <<workflow, loader, node_status, at_pause, call, response, single>>

\* a fault raised by execute that is taken for a result
node_result_fault_as_success(outcome) == IF outcome = "failure" THEN "fail" ELSE "ok"

\* _execute_node_parallel: the node's execute returns or raises; a raised
\* fault is turned into a failure result by the except clause
node_result(outcome) == IF outcome = "success" THEN "ok" ELSE "fail"

execute_node_parallel(r, n, outcome) ==
    /\ r \in DOMAIN runs
    /\ runs[r].pc = "gather"
    /\ n \in DOMAIN runs[r].task
    /\ runs[r].task[n] = "running"
    /\ runs' = [runs EXCEPT ![r].task[n] = node_result(outcome),
                            ![r].raised = IF outcome = "raise" THEN @ \cup {n} ELSE @]
    /\ errors' = IF outcome = "raise"
                 THEN handle_execution_error(errors, n, context_workflow_id(runs[r]),
                                             runs[r].eid, "fault")
                 ELSE errors
    /\ UNCHANGED <<workflow, loader, node_status, executions_db,
                   running_executions, at_pause, call, ws_vars, response, single>>

\* result processing that leaves the loop over the results at the first failure
process_results_until_failure(run) ==
    LET failed == {n \in DOMAIN run.task : run.task[n] = "fail"}
        first  == IF failed = {} THEN 0 ELSE CHOOSE n \in failed : \A m \in failed : n <= m
    IN  [run EXCEPT
           !.nodes_completed = @ \cup {n \in DOMAIN run.task :
                                         run.task[n] = "ok" /\ (first = 0 \/ n < first)},
           !.nodes_failed = @ \cup (IF first = 0 THEN {} ELSE {first}),
           !.li = @ + 1,
           !.pc = "layers"]

\* _execute_workflow_parallel lines 341-342: (completed_count / total_nodes) * 100,
\* in whole percent (the model's numbers are integers)
overall_progress(completed_count, total_nodes) ==
    (completed_count * 100) \div total_nodes

\* _execute_workflow_parallel lines 298-343: the gather has all results;
\* process them, update the progress
\* (task keeps the layer's results, the local list `results`, until the next
\* layer is issued)
process_results(run) ==
    [run EXCEPT
       !.nodes_completed = @ \cup {n \in DOMAIN run.task : run.task[n] = "ok"},
       !.nodes_failed = @ \cup {n \in DOMAIN run.task : run.task[n] = "fail"},
       !.progress = overall_progress(
                       Cardinality(run.nodes_completed
                                   \cup {n \in DOMAIN run.task : run.task[n] = "ok"}),
                       Len(workflow.nodes)),
       !.li = @ + 1,
       !.pc = "layers"]

node_after(ns, run) ==
    [n \in DOMAIN ns |->
        IF run.task[n] = "ok" THEN [status |-> "completed", progress |-> 100]
        ELSE IF run.task[n] = "fail" THEN [status |-> "error", progress |-> ns[n].progress]
        ELSE ns[n]]

\* the node updates of the processed results, and the progress update
result_updates(run) ==
    {node_update(n, "completed", 100) : n \in {m \in DOMAIN run.task : run.task[m] = "ok"}}
    \cup {node_update(n, "error", 0) : n \in {m \in DOMAIN run.task : run.task[m] = "fail"}}
    \cup {progress_update(run.eid, run.status, process_results(run).progress)}

layer_end(r) ==
    /\ r \in DOMAIN runs
    /\ runs[r].pc = "gather"
    /\ \A n \in DOMAIN runs[r].task : runs[r].task[n] # "running"
    /\ runs' = [runs EXCEPT ![r] = process_results(runs[r])]
    /\ node_status' = node_after(node_status, runs[r])
    /\ send(result_updates(runs[r]))
    /\ UNCHANGED <<workflow, loader, executions_db, running_executions, at_pause, call,
                   errors, response, single>>

\* after the progress update: next layer, or the end of execute_workflow
loop_step(r) ==
    /\ r \in DOMAIN runs
    /\ runs[r].pc = "layers"
    /\ LET run == loop_top(runs[r])
           db  == run_workflow(executions_db, run)
       IN  /\ runs' = [runs EXCEPT ![r] = run]
           /\ running_executions' = run_table(running_executions, r, run)
           /\ executions_db' = db
           /\ send(running_updates(run) \cup final_update(db, run))
           /\ errors' = creation_errors(errors, run)
    /\ UNCHANGED <<workflow, loader, node_status, at_pause, call, response, single>>

(***************************************************************************)
(* WorkflowEngine.resume_execution (engine level).                         *)
(***************************************************************************)
next_node_id(order, done) ==
    LET rest == SelectSeq(order, LAMBDA n : n \notin done)
    IN  IF rest = <<>> THEN 0 ELSE Head(rest)

engine_resume_execution(e) ==
    /\ e \in DOMAIN executions_db
    /\ running_executions[e] # 0
    /\ Len(runs) < MaxRuns
    /\ LET c == runs[running_executions[e]]
           o == get_execution_order(workflow)
           r == Len(runs) + 1
       IN  /\ o.ok
           /\ next_node_id(o.order, c.nodes_completed \cup c.nodes_failed) # 0
           /\ LET run == execute_workflow(NewRun(e, "engine_resume", Snapshot(e))) IN
              /\ runs' = Append(runs, run)
              /\ running_executions' = run_table(running_executions, r, run)
              /\ send(running_updates(run))
              /\ errors' = creation_errors(errors, run)
    /\ UNCHANGED <<workflow, loader, node_status, executions_db, at_pause, call,
                   response, single>>

Next ==
    \/ \E w \in WorkflowIds : start_execution(w)
    \/ \E e \in 1 .. MaxRuns : stop_execution(e)
    \/ \E e \in 1 .. MaxRuns : pause_execution(e)
    \/ \E e \in 1 .. MaxRuns : resume_execution(e)
    \/ \E e \in 1 .. MaxRuns : get_execution_status(e)
    \/ \E e \in 1 .. MaxRuns : engine_resume_execution(e)
    \/ \E r \in 1 .. MaxRuns : run_begin(r)
    \/ \E r \in 1 .. MaxRuns, n \in NodeIds(workflow), o \in Outcomes :
          execute_node_parallel(r, n, o)
    \/ \E r \in 1 .. MaxRuns : layer_end(r)
    \/ \E r \in 1 .. MaxRuns : loop_step(r)

Spec == Init /\ [][Next]_vars

(***************************************************************************)
(* Executions of the stored workflow that are started and run to their     *)
(* end, several at a time, with no run-control request in between.         *)
(***************************************************************************)
NextRuns ==
    \/ start_execution("stored")
    \/ \E r \in 1 .. MaxRuns : run_begin(r)
    \/ \E r \in 1 .. MaxRuns, n \in NodeIds(workflow), o \in Outcomes :
          execute_node_parallel(r, n, o)
    \/ \E r \in 1 .. MaxRuns : layer_end(r)
    \/ \E r \in 1 .. MaxRuns : loop_step(r)

SpecRuns == Init /\ [][NextRuns]_vars

(***************************************************************************)
(* Executions of a stored workflow of at most one node under start, stop,  *)
(* pause and resume requests, with the scheduling of asyncio: a background *)
(* task that has been added is started, a task whose awaited call has      *)
(* returned goes on, and (the proviso of the run loop's termination) the   *)
(* execute of every dispatched node returns or raises.                     *)
(***************************************************************************)
ExitWorkflows == WorkflowFamily(1, 1, {"video_input"}, {"video"})

InitExit ==
    /\ workflow \in ExitWorkflows
    /\ InitState

\* the ways a dispatched node's execute ends: it returns or it raises
ExitOutcomes == {"success", "raise"}

\* one execution: started once, then stopped, paused and resumed in any order
\* while its run loops go on
NextExit ==
    \/ executions_db = <<>> /\ start_execution("stored")
    \/ \E e \in 1 .. MaxRuns : stop_execution(e)
    \/ \E e \in 1 .. MaxRuns : pause_execution(e)
    \/ \E e \in 1 .. MaxRuns : resume_execution(e)
    \/ \E r \in 1 .. MaxRuns : run_begin(r)
    \/ \E r \in 1 .. MaxRuns, n \in NodeIds(workflow), o \in ExitOutcomes :
          execute_node_parallel(r, n, o)
    \/ \E r \in 1 .. MaxRuns : layer_end(r)
    \/ \E r \in 1 .. MaxRuns : loop_step(r)

\* the event loop runs a task that can go on: some run loop that can take a
\* step takes one
FairExit ==
    WF_vars(\E r \in 1 .. MaxRuns :
               \/ run_begin(r)
               \/ \E n \in NodeIds(workflow), o \in ExitOutcomes :
                     execute_node_parallel(r, n, o)
               \/ layer_end(r)
               \/ loop_step(r))

SpecExit == InitExit /\ [][NextExit]_vars /\ FairExit

(***************************************************************************)
(* The run-control requests alone, on executions of the empty workflow:    *)
(* such a run ends inside run_begin, so that running, paused, completed    *)
(* and error executions all meet every request, on known and unknown ids.  *)
(***************************************************************************)
ControlWorkflows == {EmptyWorkflow}

ExecutionIds == 1 .. MaxRuns + 1

InitControl ==
    /\ workflow \in ControlWorkflows
    /\ InitState

NextControl ==
    \/ start_execution("stored")
    \/ \E e \in ExecutionIds : stop_execution(e)
    \/ \E e \in ExecutionIds : pause_execution(e)
    \/ \E e \in ExecutionIds : resume_execution(e)
    \/ \E e \in ExecutionIds : get_execution_status(e)
    \/ \E r \in 1 .. MaxRuns : run_begin(r)

SpecControl == InitControl /\ [][NextControl]_vars

(***************************************************************************)
(* The engine called directly by one caller that awaits each call (as the  *)
(* tests do): execute_workflow on a workflow whose nodes may carry a type  *)
(* tag without a branch in _create_node_instance, and execute_single_node. *)
(***************************************************************************)
\* NodeType.UTILITY is a member of the enum and has no branch
EngineTypes == {"video_input", "utility"}

EngineWorkflows == WorkflowFamily(2, 1, EngineTypes, {"video"})

\* the id of the node handed to execute_single_node
SingleNodeId == 0

\* the error messages of a failing execute
Messages == {"m1", "m2"}

\* the values a node passes to update_progress
ProgressValues == {10, 50}

\* the caller is not inside a call
Idle ==
    /\ \A i \in DOMAIN runs : runs[i].pc = "done"
    /\ single.pc \in {"idle", "done"}

InitEngine ==
    /\ workflow \in EngineWorkflows
    /\ InitState

\* (an engine is used for workflow runs or for single-node runs: the two
\* share no state of the engine)
engine_execute_workflow ==
    /\ Idle
    /\ single = NoSingle
    /\ Len(runs) < MaxRuns
    /\ LET r   == Len(runs) + 1
           run == execute_workflow(NewRun(r, "direct", [completed |-> {}, failed |-> {}]))
       IN  /\ runs' = Append(runs, run)
           /\ running_executions' = run_table(running_executions, r, run)
           /\ send(running_updates(run))
           /\ errors' = creation_errors(errors, run)
    /\ UNCHANGED <<workflow, loader, node_status, executions_db, at_pause, call,
                   response, single>>

\* execute_single_node lines 120-139: context, instance, running update; a
\* fault of _create_node_instance goes to the except clause (lines 166-175)
execute_single_node(node_type) ==
    /\ Idle
    /\ runs = <<>>
    /\ IF create_node_instance(node_type) = "TypeError"
       THEN /\ single' = [pc |-> "done", type |-> node_type, outcome |-> "raise",
                          reports |-> <<[status |-> "error", progress |-> 0]>>,
                          result |-> [success |-> FALSE, error |-> "TypeError"]]
            /\ send({node_update(SingleNodeId, "error", 0)})
       ELSE /\ single' = [pc |-> "executing", type |-> node_type, outcome |-> "none",
                          reports |-> <<[status |-> "running", progress |-> 0]>>,
                          result |-> [success |-> FALSE, error |-> ""]]
            /\ send({node_update(SingleNodeId, "running", 0)})
    /\ UNCHANGED <<workflow, loader, node_status, executions_db, running_executions,
                   runs, at_pause, call, errors, response>>

LastReport(s) == s.reports[Len(s.reports)]

\* BaseNode.update_progress, called by the node's execute
update_progress(progress) ==
    /\ single.pc = "executing"
    /\ progress > LastReport(single).progress
    /\ single' = [single EXCEPT
                    !.reports = Append(@, [status |-> "running", progress |-> progress])]
    /\ send({node_update(SingleNodeId, "running", progress)})
    /\ UNCHANGED <<workflow, loader, node_status, executions_db, running_executions,
                   runs, at_pause, call, errors, response>>

\* the terminal notification that repeats the progress last reported
terminal_report_keeping_progress(s, outcome) ==
    IF outcome = "success" THEN [status |-> "completed", progress |-> 100]
    ELSE [status |-> "error", progress |-> LastReport(s).progress]

\* execute_single_node lines 144-162 and 166-174: the terminal notification
terminal_report(s, outcome) ==
    IF outcome = "success" THEN [status |-> "completed", progress |-> 100]
    ELSE [status |-> "error", progress |-> 0]

\* execute_single_node lines 142-175: execute returns or raises
single_node_return(outcome, m) ==
    /\ single.pc = "executing"
    /\ LET rep == terminal_report(single, outcome) IN
       /\ single' = [single EXCEPT
                       !.pc = "done",
                       !.outcome = outcome,
                       !.reports = Append(@, rep),
                       !.result = IF outcome = "success"
                                  THEN [success |-> TRUE, error |-> ""]
                                  ELSE [success |-> FALSE, error |-> m]]
       /\ send({node_update(SingleNodeId, rep.status, rep.progress)})
    /\ UNCHANGED <<workflow, loader, node_status, executions_db, running_executions,
                   runs, at_pause, call, errors, response>>

NextEngine ==
    \/ engine_execute_workflow
    \/ \E r \in 1 .. MaxRuns, n \in NodeIds(workflow), o \in Outcomes :
          execute_node_parallel(r, n, o)
    \/ \E r \in 1 .. MaxRuns : layer_end(r)
    \/ \E r \in 1 .. MaxRuns : loop_step(r)
    \/ \E t \in EngineTypes : execute_single_node(t)
    \/ \E p \in ProgressValues : update_progress(p)
    \/ \E o \in Outcomes, m \in Messages : single_node_return(o, m)

SpecEngine == InitEngine /\ [][NextEngine]_vars

(***************************************************************************)
(* Errors handed to the error handler through its convenience functions    *)
(* while the engine runs.                                                  *)
(***************************************************************************)
\* error_handler.py lines 204-279: the fixed arguments of the wrappers
\* (handle_validation_error and handle_resource_error take no execution id)
ErrorKinds ==
    {[fn |-> "handle_validation_error", severity |-> "medium", category |-> "validation",
      recoverable |-> TRUE, halt_workflow |-> FALSE, execution_id |-> FALSE],
     [fn |-> "handle_execution_error", severity |-> "high", category |-> "execution",
      recoverable |-> TRUE, halt_workflow |-> TRUE, execution_id |-> TRUE],
     [fn |-> "handle_resource_error", severity |-> "high", category |-> "resource",
      recoverable |-> TRUE, halt_workflow |-> TRUE, execution_id |-> FALSE],
     [fn |-> "handle_critical_error", severity |-> "critical", category |-> "unknown",
      recoverable |-> FALSE, halt_workflow |-> TRUE, execution_id |-> TRUE]}

\* WorkflowEngine.__init__: the run table of a new engine
new_running_executions == [e \in 1 .. MaxRuns |-> 0]

\* WorkflowEngine.stop_execution (lines 75-87) on the engine with run table
\* table: the contexts after the call
engine_stop_execution(table, rs, e) ==
    IF e \in DOMAIN table /\ table[e] # 0
    THEN [rs EXCEPT ![table[e]].status = "paused"]
    ELSE rs

\* _halt_workflow lines 139-140: stop_execution is called on a WorkflowEngine
\* created on the spot, not on the engine that runs the executions
halt_workflow(rs, e) == engine_stop_execution(new_running_executions, rs, e)

handle_error(kind, workflow_id, execution_id) ==
    /\ now(errors) <= MaxErrors
    /\ LET e == IF kind.execution_id THEN execution_id ELSE 0 IN
       /\ \E second \in seconds(errors) :
             errors' = append_error(errors, second, kind.severity, kind.category, "fault",
                                    0, workflow_id, e, kind.recoverable)
       /\ IF halts(kind.severity, kind.halt_workflow, workflow_id, e)
          THEN /\ runs' = halt_workflow(runs, e)
               /\ send({execution_update(e, "error")})
          ELSE UNCHANGED <<runs, ws_vars>>
    /\ UNCHANGED <<workflow, loader, node_status, executions_db, running_executions,
                   at_pause, call, response, single>>

NextHalt ==
    \/ engine_execute_workflow
    \/ \E r \in 1 .. MaxRuns, n \in NodeIds(workflow), o \in Outcomes :
          execute_node_parallel(r, n, o)
    \/ \E r \in 1 .. MaxRuns : layer_end(r)
    \/ \E r \in 1 .. MaxRuns : loop_step(r)
    \/ \E k \in ErrorKinds, e \in 1 .. MaxRuns : handle_error(k, "stored", e)

SpecHalt == InitEngine /\ [][NextHalt]_vars

(***************************************************************************)
(* The error log behind /api/errors: records are appended by the error     *)
(* handler, retried by id and cleared by age.                              *)
(***************************************************************************)
\* the ids a request may name: those of records and others
ErrorIds == {<<t, k>> : t \in 1 .. MaxErrors + 1, k \in 0 .. MaxErrors}

\* get_errors() and next(...): the first record of the log with the id, the
\* log being in the order of the timestamps
find_error(errs, error_id) ==
    LET found == {e \in errs : e.id = error_id}
    IN  IF found = {} THEN {}
        ELSE {CHOOSE e \in found : \A f \in found : e.timestamp <= f.timestamp}

\* a retry that does not test the number of attempts made
retry_rejection_without_limit(found) ==
    IF found = {} THEN HTTPException(404, "Error not found")
    ELSE LET error == CHOOSE e \in found : TRUE
         IN  IF ~error.recoverable THEN HTTPException(400, "Error is not recoverable")
             ELSE Accepted

\* retry_error lines 72-79: the rejection of the request, if any
retry_rejection(found) ==
    IF found = {} THEN HTTPException(404, "Error not found")
    ELSE LET error == CHOOSE e \in found : TRUE
         IN  IF ~error.recoverable THEN HTTPException(400, "Error is not recoverable")
             ELSE IF error.retry_count >= error.max_retries
             THEN HTTPException(400, "Maximum retry attempts exceeded")
             ELSE Accepted

\* POST /api/errors/{error_id}/retry
retry_error(error_id) ==
    /\ LET found == find_error(errors, error_id) IN
       /\ response' = retry_rejection(found)
       /\ errors' = IF retry_rejection(found) = Accepted
                    THEN (errors \ found) \cup {[e EXCEPT !.retry_count = @ + 1] : e \in found}
                    ELSE errors
    /\ UNCHANGED <<workflow, loader, node_status, executions_db, running_executions,
                   runs, at_pause, call, ws_vars, single>>

\* DELETE /api/errors and ErrorHandler.clear_errors: the records with a
\* timestamp after cutoff_time (now minus older_than_hours) are kept
clear_errors(cutoff_time) ==
    /\ errors' = {e \in errors : e.timestamp > cutoff_time}
    /\ response' = Accepted
    /\ UNCHANGED <<workflow, loader, node_status, executions_db, running_executions,
                   runs, at_pause, call, ws_vars, single>>

\* the wrappers called while the log is inspected: one whose records can be
\* retried and that does not halt, one whose records cannot and that halts
LogKinds ==
    {k \in ErrorKinds : k.fn \in {"handle_validation_error", "handle_critical_error"}}

NextLog ==
    \/ \E k \in LogKinds : handle_error(k, "stored", 1)
    \/ \E error_id \in ErrorIds : retry_error(error_id)
    \/ \E cutoff_time \in 0 .. MaxErrors : clear_errors(cutoff_time)

InitLog ==
    /\ workflow \in ControlWorkflows
    /\ loader = "placeholder"
    /\ InitState

SpecLog == InitLog /\ [][NextLog]_vars

(***************************************************************************)
(* The event channel: clients connect to and disconnect from /ws while the *)
(* engine runs.                                                            *)
(***************************************************************************)
\* list.remove for each connection of cs
without(q, cs) == SelectSeq(q, LAMBDA x : x \notin cs)

\* history: the connections cs leave the lists that the calls of the tasks ps
\* iterate over; they no longer count as in the list during the whole of a
\* call in progress
leave(pubs, cs, ps) ==
    [p \in DOMAIN pubs |->
        IF pubs[p].pc = "sending" /\ p \in ps
        THEN [pubs[p] EXCEPT !.stayed = @ \ cs]
        ELSE pubs[p]]

\* WebSocketManager.connect, after websocket.accept()
connect(c) ==
    /\ c \notin Range(active_connections)
    /\ active_connections' = Append(active_connections, c)
    /\ UNCHANGED <<workflow, loader, node_status, executions_db, running_executions,
                   runs, at_pause, call, emitted, delivered, node_subscriptions, publish,
                   errors, response, single>>

\* WebSocketManager.disconnect, called by websocket_endpoint on WebSocketDisconnect
disconnect(c) ==
    /\ c \in Range(active_connections)
    /\ active_connections' = without(active_connections, {c})
    /\ node_subscriptions' = [n \in NodeKeys |-> without(node_subscriptions[n], {c})]
    /\ publish' = leave(publish, {c}, Publishers)
    /\ UNCHANGED <<workflow, loader, node_status, executions_db, running_executions,
                   runs, at_pause, call, emitted, delivered, errors, response, single>>

NextWs ==
    \/ engine_execute_workflow
    \/ \E r \in 1 .. MaxRuns, n \in NodeIds(workflow), o \in Outcomes :
          execute_node_parallel(r, n, o)
    \/ \E r \in 1 .. MaxRuns : layer_end(r)
    \/ \E r \in 1 .. MaxRuns : loop_step(r)
    \/ \E c \in Clients : connect(c)
    \/ \E c \in Clients : disconnect(c)

SpecWs == InitEngine /\ [][NextWs]_vars

(***************************************************************************)
(* The calls of broadcast and send_node_update step by step.  Each         *)
(* `await ....send_text(message)` is a suspension of the publishing task,  *)
(* at which connect, disconnect, subscribe_to_node, unsubscribe_from_node  *)
(* and the steps of other tasks run.  The one layer of an edge-free         *)
(* workflow is executed: each node's task sends its running update and a   *)
(* progress update, then the run loop sends the terminal updates and the   *)
(* execution update.                                                       *)
(***************************************************************************)
\* one node
PublishWorkflows == WorkflowFamily(1, 0, {"video_input"}, {"video"}) \ {EmptyWorkflow}

\* a layer of two nodes
OrderWorkflows ==
    WorkflowFamily(2, 0, {"video_input"}, {"video"}) \ WorkflowFamily(1, 0, {"video_input"}, {"video"})

InitPublish ==
    /\ workflow \in PublishWorkflows
    /\ loader = "patched"
    /\ InitState

InitOrder ==
    /\ workflow \in OrderWorkflows
    /\ loader = "patched"
    /\ InitState

\* a task that sends its progress update before its running update
task_messages_progress_first(p) ==
    <<node_update(p, "running", 10), node_update(p, "running", 0)>>

\* the node updates of a node's task, in program order: the running update of
\* _execute_node_parallel, then update_progress of the node's execute
task_messages(p) == <<node_update(p, "running", 0), node_update(p, "running", 10)>>

\* the updates of the run loop after the gather: the results in the order of
\* the layer, then the progress of the execution
scheduler_messages(wf) ==
    [n \in NodeIds(wf) |-> node_update(n, "completed", 100)]
    \o <<execution_update(1, "running")>>

messages(p) == IF p = 0 THEN scheduler_messages(workflow) ELSE task_messages(p)

\* the list object the loop of the call iterates over
target_list(pub) ==
    IF pub.list = "active_connections" THEN active_connections
    ELSE node_subscriptions[pub.node]

\* WebSocketManager.subscribe_to_node
subscribe_to_node(c, n) ==
    /\ c \in Range(active_connections)
    /\ c \notin Range(node_subscriptions[n])
    /\ node_subscriptions' = [node_subscriptions EXCEPT ![n] = Append(@, c)]
    /\ UNCHANGED <<workflow, loader, node_status, executions_db, running_executions,
                   runs, at_pause, call, emitted, delivered, active_connections, publish,
                   errors, response, single>>

\* WebSocketManager.unsubscribe_from_node
unsubscribe_from_node(c, n) ==
    /\ c \in Range(node_subscriptions[n])
    /\ node_subscriptions' = [node_subscriptions EXCEPT ![n] = without(@, {c})]
    /\ publish' = leave(publish, {c},
                        {p \in Publishers : /\ publish[p].list = "node_subscriptions"
                                            /\ publish[p].node = n})
    /\ UNCHANGED <<workflow, loader, node_status, executions_db, running_executions,
                   runs, at_pause, call, emitted, delivered, active_connections,
                   errors, response, single>>

\* the call has returned: only the number of calls made is kept
returned(pub) == [NoPublish EXCEPT !.pc = "done", !.k = pub.k]

\* broadcast lines 35-42 / send_node_update lines 51-64: the task p makes its
\* next call; the loop takes the first element of the list and the task is
\* suspended in send_text (an empty list or a missing key ends the call)
publish_begin(p) ==
    /\ p \in {0} \cup NodeIds(workflow)
    /\ publish[p].pc \in {"idle", "done"}
    /\ publish[p].k < Len(messages(p))
    /\ p = 0 => \A q \in NodeIds(workflow) :
                   publish[q].pc = "done" /\ publish[q].k = Len(messages(q))
    /\ LET m    == messages(p)[publish[p].k + 1]
           call_ == [NoPublish EXCEPT
                       !.k = publish[p].k + 1,
                       !.msg = m,
                       !.list = IF m.type = "execution_update" THEN "active_connections"
                                ELSE "node_subscriptions",
                       !.node = IF m.type = "execution_update" THEN 0 ELSE m.id]
           L    == target_list(call_)
       IN  /\ emitted' = emitted \cup {m}
           /\ publish' = [publish EXCEPT ![p] =
                  IF L = <<>> THEN returned(call_)
                  ELSE [call_ EXCEPT !.pc = "sending", !.i = 1, !.to = L[1],
                                     !.stayed = Range(L)]]
    /\ UNCHANGED <<workflow, loader, node_status, executions_db, running_executions,
                   runs, at_pause, call, delivered, active_connections,
                   node_subscriptions, errors, response, single>>

\* the loop takes the element at the next position of the list as it is now
next_element(pub, L) ==
    IF pub.i + 1 <= Len(L)
    THEN [pub EXCEPT !.i = @ + 1, !.to = L[pub.i + 1]]
    ELSE [pub EXCEPT !.pc = "done"]

\* broadcast lines 40-49 / send_node_update lines 63-72: send_text to the
\* connection returns (ok) or raises; the loop goes on with the next element,
\* or ends and the connections whose send raised are disconnected
publish_step(p, ok) ==
    /\ publish[p].pc = "sending"
    /\ LET pub  == publish[p]
           c    == pub.to
           done == [pub EXCEPT !.sent = Append(@, c),
                               !.disconnected = IF ok THEN @ ELSE @ \cup {c}]
           nxt  == next_element(done, target_list(pub))
       IN  /\ delivered' = IF ok THEN [delivered EXCEPT ![c] = @ \cup {pub.msg}]
                           ELSE delivered
           /\ IF nxt.pc = "done"
              THEN /\ active_connections' = without(active_connections, nxt.disconnected)
                   /\ node_subscriptions' =
                         [n \in NodeKeys |-> without(node_subscriptions[n], nxt.disconnected)]
                   /\ publish' = leave([publish EXCEPT ![p] = returned(nxt)],
                                       nxt.disconnected, Publishers)
              ELSE /\ publish' = [publish EXCEPT ![p] = nxt]
                   /\ UNCHANGED <<active_connections, node_subscriptions>>
    /\ UNCHANGED <<workflow, loader, node_status, executions_db, running_executions,
                   runs, at_pause, call, emitted, errors, response, single>>

NextPublish ==
    \/ \E c \in Clients : connect(c)
    \/ \E c \in Clients : disconnect(c)
    \/ \E c \in Clients, n \in NodeIds(workflow) : subscribe_to_node(c, n)
    \/ \E c \in Clients, n \in NodeIds(workflow) : unsubscribe_from_node(c, n)
    \/ \E p \in Publishers : publish_begin(p)
    \/ \E p \in Publishers, ok \in BOOLEAN : publish_step(p, ok)

SpecPublish == InitPublish /\ [][NextPublish]_vars

\* the client that connects and subscribes while a layer of two nodes runs
OrderClients == {"c1"}

\* the same with a layer of two nodes, one client and every send_text returning
NextOrder ==
    \/ \E c \in OrderClients : connect(c)
    \/ \E c \in OrderClients : disconnect(c)
    \/ \E c \in OrderClients, n \in NodeIds(workflow) : subscribe_to_node(c, n)
    \/ \E c \in OrderClients, n \in NodeIds(workflow) : unsubscribe_from_node(c, n)
    \/ \E p \in Publishers : publish_begin(p)
    \/ \E p \in Publishers : publish_step(p, TRUE)

SpecOrder == InitOrder /\ [][NextOrder]_vars

(***************************************************************************)
(* Specification of the pure functions: a workflow is drawn and            *)
(* _validate_workflow, _get_execution_order and the layer computation of   *)
(* _execute_workflow_parallel (fresh execution) are applied to it.         *)
(***************************************************************************)
InitFn ==
    /\ workflow \in GraphWorkflows \cup PortWorkflows
    /\ InitState

call_validate ==
    /\ call = NoCall
    /\ call' = [op |-> "validate", res |-> validate_workflow(workflow)]
    /\ UNCHANGED <<workflow, loader, node_status, executions_db,
                   running_executions, runs, at_pause, ws_vars, errors, response, single>>

call_order ==
    /\ call = NoCall
    /\ call' = [op |-> "order", res |-> get_execution_order(workflow)]
    /\ UNCHANGED <<workflow, loader, node_status, executions_db,
                   running_executions, runs, at_pause, ws_vars, errors, response, single>>

call_layers ==
    /\ call = NoCall
    /\ call' = [op |-> "layers", res |-> layers(workflow, {})]
    /\ UNCHANGED <<workflow, loader, node_status, executions_db,
                   running_executions, runs, at_pause, ws_vars, errors, response, single>>

NextFn == call_validate \/ call_order \/ call_layers

SpecFn == InitFn /\ [][NextFn]_vars

(***************************************************************************)
(* Graph notions the claims are stated with (independent of the code's     *)
(* traversals).                                                            *)
(***************************************************************************)
Succ(wf, x) == {e.target : e \in {y \in wf.edges : y.source = x}}

RECURSIVE Closure(_, _)
Closure(wf, S) ==
    LET N == S \cup UNION {Succ(wf, x) : x \in S}
    IN  IF N = S THEN S ELSE Closure(wf, N)

\* ids reachable from x in one or more steps
ReachablePlus(wf, x) == Closure(wf, Succ(wf, x))

AllIds(wf) ==
    NodeIds(wf) \cup {e.source : e \in wf.edges} \cup {e.target : e \in wf.edges}

\* no directed cycle at all, whatever ids the edges name
Acyclic(wf) == \A x \in AllIds(wf) : x \notin ReachablePlus(wf, x)

\* the graph on the nodes alone: edges between two nodes
NodeGraph(wf) ==
    [wf EXCEPT !.edges = {e \in wf.edges :
                            e.source \in NodeIds(wf) /\ e.target \in NodeIds(wf)}]

\* a directed cycle of nodes, of any length (a self-referential edge included)
HasNodeCycle(wf) ==
    \E x \in NodeIds(wf) : x \in ReachablePlus(NodeGraph(wf), x)

WellFormed(wf) == Dangling(wf) = {}

LayerIndexes(L, n) == {i \in 1 .. Len(L) : n \in L[i]}

\* required ports of the workflow's nodes that no edge targets
UnconnectedRequired(wf) ==
    {p \in [node : NodeIds(wf), port : Ports] :
        /\ p.port \in RequiredInputs(wf.nodes[p.node].type)
        /\ ~\E e \in wf.edges : e.target = p.node /\ e.targetHandle = p.port}

(***************************************************************************)
(* Claims.                                                                 *)
(***************************************************************************)

\* C1: for every acyclic workflow (with or without edges) whose nodes all
\* succeed, a finished execute_workflow has dispatched every node exactly
\* once, returned success, and left the execution completed with an empty
\* failed set.
C1_AllSucceedCompletes ==
    \A r \in DOMAIN runs :
        (/\ runs[r].pc = "done"
         /\ loader = "patched"
         /\ Acyclic(workflow) /\ WellFormed(workflow)
         /\ runs[r].nodes_failed = {})
        => /\ runs[r].result = "success"
           /\ runs[r].status = "completed"
           /\ \A n \in NodeIds(workflow) : runs[r].dispatch_count[n] = 1

\* C2: if a dispatched node fails, execute_workflow returns success=false
\* with the execution in status error, the failing node's id is in the
\* failed set (and its status is no longer idle), and no node of a later
\* layer is dispatched by that run; a node that no run dispatched keeps
\* status idle.
C2_FailedRunState ==
    \A r \in DOMAIN runs :
        /\ (runs[r].pc = "done" /\ runs[r].nodes_failed # {})
              => runs[r].result = "failure" /\ runs[r].status = "error"
        /\ runs[r].pc \in {"layers", "done"}
              => \A n \in DOMAIN runs[r].task :
                    runs[r].task[n] = "fail" => n \in runs[r].nodes_failed
        /\ runs[r].nodes_failed # {}
              => \A j \in runs[r].li .. Len(runs[r].layers) :
                    \A n \in runs[r].layers[j] : runs[r].dispatch_count[n] = 0
        /\ \A n \in runs[r].nodes_failed : node_status[n].status # "idle"

C2_NeverDispatchedIdle ==
    \A n \in NodeIds(workflow) :
        (\A r \in DOMAIN runs : runs[r].dispatch_count[n] = 0)
            => node_status[n].status = "idle"

C2_FailureEndsInError == C2_FailedRunState /\ C2_NeverDispatchedIdle

\* C2 witness: a finished run in which one node failed and its sibling of the
\* same layer succeeded
C2_Witness ==
    \E r \in DOMAIN runs :
        /\ runs[r].pc = "done"
        /\ runs[r].nodes_failed # {}
        /\ runs[r].nodes_completed # {}
        /\ runs[r].result = "failure"
        /\ runs[r].status = "error"
        /\ executions_db[runs[r].eid].status = "error"

\* C3: for every acyclic workflow whose edges reference only existing
\* nodes, the layer computation of a fresh execution succeeds, every node
\* is in exactly one layer, and every edge goes from a lower layer to a
\* higher one.
C3_LayersAreTopological ==
    (call.op = "layers" /\ Acyclic(workflow) /\ WellFormed(workflow))
    => /\ call.res.ok
       /\ \A n \in NodeIds(workflow) :
             Cardinality(LayerIndexes(call.res.layers, n)) = 1
       /\ \A e \in workflow.edges :
             \A i \in LayerIndexes(call.res.layers, e.source) :
                \A j \in LayerIndexes(call.res.layers, e.target) : i < j

\* C4: a run loop started by resume dispatches exactly the nodes that were
\* neither completed nor failed when the execution was paused, each once.
C4_ResumeRunsRemainingOnly ==
    \A r \in DOMAIN runs :
        runs[r].origin = "resume"
        => LET done == runs[r].skip.completed \cup runs[r].skip.failed IN
           /\ \A n \in done : runs[r].dispatch_count[n] = 0
           /\ (runs[r].pc = "done" /\ runs[r].result = "success")
                 => \A n \in NodeIds(workflow) \ done : runs[r].dispatch_count[n] = 1

\* C5: while the execution record is paused (stop or pause accepted, no
\* resume yet) no run loop of that execution dispatches a node.
C5_NoDispatchStep ==
    \A r \in DOMAIN runs :
        executions_db[runs[r].eid].status = "paused"
        => runs'[r].dispatch_count = runs[r].dispatch_count

C5_NoDispatchWhilePaused == [][C5_NoDispatchStep]_vars

\* C6: a paused execution stays paused until a resume request sets it
\* running; a run loop that ends does not move it to completed or error.
C6_PausedStep ==
    \A e \in DOMAIN executions_db :
        executions_db[e].status = "paused"
        => executions_db'[e].status \in {"paused", "running"}

C6_PausedUntilResume == [][C6_PausedStep]_vars

\* C7: completed and error are absorbing states of the execution record.
C7_TerminalStep ==
    \A e \in DOMAIN executions_db :
        executions_db[e].status \in {"completed", "error"}
        => executions_db'[e].status = executions_db[e].status

C7_TerminalAbsorbing == [][C7_TerminalStep]_vars

\* C8: _validate_workflow returns valid=true for every workflow without a
\* directed cycle, and valid=false with the cycle reason for every workflow
\* with a directed cycle of nodes, of any length.
C8_CycleValidation ==
    call.op = "validate"
    => /\ Acyclic(workflow) => call.res.valid
       /\ HasNodeCycle(workflow)
             => ~call.res.valid /\ call.res.error = "Workflow contains cycles"

\* C8 witness: validation has rejected a workflow whose first node lies on
\* no cycle but leads to a cycle of two other nodes
C8_Witness ==
    /\ call.op = "validate"
    /\ Len(workflow.nodes) = 3
    /\ 1 \notin ReachablePlus(workflow, 1)
    /\ 2 \in ReachablePlus(workflow, 1)
    /\ 3 \in ReachablePlus(workflow, 2) /\ 2 \in ReachablePlus(workflow, 3)
    /\ 2 \notin Succ(workflow, 2) /\ 3 \notin Succ(workflow, 3)
    /\ ~call.res.valid

\* C9: validation returns valid=false for a workflow with an edge whose
\* source or target is no node of workflow.nodes.
C9_DanglingEdgeRejected ==
    (call.op = "validate" /\ ~WellFormed(workflow)) => ~call.res.valid

\* C10: validation returns valid=false, naming the node and the port, when
\* a required input port of a node is the target of no edge.
C10_RequiredInputChecked ==
    (call.op = "validate" /\ UnconnectedRequired(workflow) # {})
    => /\ ~call.res.valid
       /\ ~has_cycles(workflow)
             => [node |-> call.res.node, port |-> call.res.port]
                   \in UnconnectedRequired(workflow)

\* C11: a workflow that fails validation is never partially executed: every
\* call of execute_workflow on it returns a failure without creating an
\* execution context, no node is dispatched, receives an update or changes
\* its status, and the run table holds no context.
C11_InvalidNeverExecuted ==
    (loader = "patched" /\ ~validate_workflow(workflow).valid)
    => /\ \A r \in DOMAIN runs :
             /\ runs[r].pc = "done"
             /\ runs[r].result = "failure"
             /\ runs[r].error = validate_workflow(workflow).error
             /\ ~runs[r].ctx
             /\ \A n \in NodeIds(workflow) : runs[r].dispatch_count[n] = 0
       /\ \A n \in NodeIds(workflow) : node_status[n] = [status |-> "idle", progress |-> 0]
       /\ runs # <<>> => \A m \in emitted : m.type # "node_update"
       /\ \A e \in DOMAIN running_executions : running_executions[e] = 0

\* C11 witness: execute_workflow has returned on a cyclic workflow that has a
\* node outside the cycle
C11_Witness ==
    /\ loader = "patched"
    /\ Len(workflow.nodes) = 2
    /\ \E n \in NodeIds(workflow) : dependencies(NodeGraph(workflow))[n] = {}
    /\ \E r \in DOMAIN runs :
          runs[r].pc = "done" /\ runs[r].error = "Workflow contains cycles"

\* C12: a node whose execute raised a fault and a node whose execute returned
\* a failure result are treated alike: once the layer's results are
\* processed the node is in the failed set and not in the completed set, an
\* error node_update for it has been emitted, its status is error, and the
\* run that returns has status error and a failure result.
C12_FaultTreatedAsFailure ==
    \A r \in DOMAIN runs : \A n \in DOMAIN runs[r].task :
        (/\ runs[r].pc \in {"layers", "done"}
         /\ runs[r].task[n] = "fail" \/ n \in runs[r].raised)
        => /\ runs[r].task[n] = "fail"
           /\ n \in runs[r].nodes_failed
           /\ n \notin runs[r].nodes_completed
           /\ node_update(n, "error", 0) \in emitted
           /\ r = Len(runs) => node_status[n].status = "error"
           /\ \A j \in runs[r].li .. Len(runs[r].layers) :
                 \A k \in runs[r].layers[j] : runs[r].dispatch_count[k] = 0
           /\ runs[r].pc = "done"
                 => runs[r].status = "error" /\ runs[r].result = "failure"

\* C12 witness: a returned run in which one node's execute raised a fault and
\* its sibling's execute returned a failure result
C12_Witness ==
    \E r \in DOMAIN runs : \E n1, n2 \in DOMAIN runs[r].task :
        /\ runs[r].pc = "done"
        /\ n1 \in runs[r].raised
        /\ workflow.nodes[n1].type \in RecognizedTypes
        /\ n2 \notin runs[r].raised
        /\ runs[r].task[n2] = "fail"
        /\ {n1, n2} \subseteq runs[r].nodes_failed

\* C13: when the results of a layer are processed, every node dispatched in
\* it has run to its own outcome, whatever its siblings did, and the outcome
\* is recorded: success in the completed set, failure (by result or by
\* fault) in the failed set; only the layers after it are not started.
C13_SiblingsRunToOutcome ==
    \A r \in DOMAIN runs :
        (runs[r].pc \in {"layers", "done"} /\ runs[r].li > 1)
        => /\ \A n \in runs[r].layers[runs[r].li - 1] :
                 /\ runs[r].dispatch_count[n] = 1
                 /\ \/ runs[r].task[n] = "ok" /\ n \in runs[r].nodes_completed
                                             /\ n \notin runs[r].nodes_failed
                    \/ runs[r].task[n] = "fail" /\ n \in runs[r].nodes_failed
                                               /\ n \notin runs[r].nodes_completed
           /\ runs[r].nodes_completed \cup runs[r].nodes_failed
                 = UNION {runs[r].layers[j] : j \in 1 .. runs[r].li - 1}

\* C13 witness: the results of a layer are processed in which one node
\* raised a fault and its sibling succeeded
C13_Witness ==
    \E r \in DOMAIN runs :
        /\ runs[r].pc = "layers"
        /\ runs[r].raised # {}
        /\ runs[r].raised \subseteq runs[r].nodes_failed
        /\ runs[r].nodes_completed # {}

\* C14: execute_workflow always returns; when a fault raised in the run loop
\* outside the nodes (the layer computation's unresolvable-dependency fault,
\* the lookup fault of an edge to a missing node) ended it, the result is a
\* failure and run_workflow has set the execution to status error with the
\* fault's message as its error.
C14_FaultForcesError ==
    \A r \in DOMAIN runs :
        (/\ runs[r].pc = "done"
         /\ runs[r].origin \in {"start", "resume"}
         /\ runs[r].error \in {"ValueError", "KeyError"})
        => /\ runs[r].result = "failure"
           /\ running_executions[runs[r].eid] # r
           /\ executions_db[runs[r].eid].status = "error"
           /\ executions_db[runs[r].eid].error = runs[r].error
           /\ execution_update(runs[r].eid, "error") \in emitted

\* C14 witness: a run loop ended by the unresolvable-dependency fault of the
\* layer computation, with the execution in status error
C14_Witness ==
    \E r \in DOMAIN runs :
        /\ runs[r].pc = "done"
        /\ runs[r].error = "ValueError"
        /\ runs[r].ctx
        /\ executions_db[runs[r].eid] = [workflow_id |-> "stored", status |-> "error",
                                          error |-> "ValueError"]

C16_UnknownTypeIsConfiguration ==
    \A err \in errors : err.message = "TypeError" => err.category = "configuration"

\* C17: a stop, pause, resume or status request for an execution id that is
\* not in executions_db is answered 404; stop or pause of an execution that is
\* not running and resume of one that is not paused are answered 400; such a
\* step changes no execution record, publishes no event and schedules no run.
C17_RejectedRequestChangesNothing ==
    [][\A e \in ExecutionIds :
          /\ (/\ e \notin DOMAIN executions_db
              /\ \/ stop_execution(e)
                 \/ pause_execution(e)
                 \/ resume_execution(e)
                 \/ get_execution_status(e))
             => /\ response' = HTTPException(404, "Execution not found")
                /\ UNCHANGED <<executions_db, runs, running_executions, at_pause,
                               emitted, delivered>>
          /\ (/\ e \in DOMAIN executions_db
              /\ executions_db[e].status # "running"
              /\ stop_execution(e) \/ pause_execution(e))
             => /\ response' = HTTPException(400, "Execution is not running")
                /\ UNCHANGED <<executions_db, runs, running_executions, at_pause,
                               emitted, delivered>>
          /\ (/\ e \in DOMAIN executions_db
              /\ executions_db[e].status # "paused"
              /\ resume_execution(e))
             => /\ response' = HTTPException(400, "Execution is not paused")
                /\ UNCHANGED <<executions_db, runs, running_executions, at_pause,
                               emitted, delivered>>
      ]_vars

\* C17 witness: a request was rejected as a conflict while an execution that
\* has ended exists, and a paused execution exists as well
C17_Witness ==
    /\ response = HTTPException(400, "Execution is not running")
    /\ \E e \in DOMAIN executions_db : executions_db[e].status \in {"completed", "error"}
    /\ \E e \in DOMAIN executions_db : executions_db[e].status = "paused"

\* C18: no execution record exists for a workflow id that is not stored, and a
\* finished run started for the stored id of a valid workflow without edges
\* has dispatched every node of that workflow.
C18_StartChecksWorkflow ==
    /\ \A e \in DOMAIN executions_db : executions_db[e].workflow_id \in workflows_db
    /\ \A r \in DOMAIN runs :
          (/\ runs[r].origin = "start"
           /\ runs[r].pc = "done"
           /\ executions_db[runs[r].eid].workflow_id \in workflows_db
           /\ validate_workflow(workflow).valid
           /\ workflow.edges = {})
          => \A n \in NodeIds(workflow) : runs[r].dispatch_count[n] > 0

\* C19: a single-node run whose execute failed (result or fault) reported
\* running first and error last, returned success false with the message, and
\* its last report carries the progress of the report before it.
C19_FailureKeepsProgress ==
    (single.pc = "done" /\ single.outcome \in {"failure", "raise"})
    => /\ ~single.result.success
       /\ single.result.error \in Messages \cup {"TypeError"}
       /\ Len(single.reports) >= 2 => single.reports[1].status = "running"
       /\ LastReport(single).status = "error"
       /\ Len(single.reports) >= 2
            => LastReport(single).progress = single.reports[Len(single.reports) - 1].progress

\* C20: every node_update emitted in a step is delivered in that step to
\* every client connected at that moment.
C20_NodeUpdatesReachAllClients ==
    [][\A m \in emitted' \ emitted :
          m.type = "node_update"
          => \A c \in Range(active_connections) : m \in delivered'[c]]_vars

\* C21: when an error of severity critical or with halt_workflow set is handled
\* for an execution that is in the run table, the status of that execution's
\* context is no longer running after the step.
C21_HaltStopsRunningExecution ==
    [][\A k \in ErrorKinds, e \in 1 .. MaxRuns :
          (/\ handle_error(k, "stored", e)
           /\ k.halt_workflow \/ k.severity = "critical"
           /\ running_executions[e] # 0)
          => runs'[running_executions[e]].status # "running"]_vars

\* C22: for every acyclic workflow _get_execution_order returns a list that
\* holds every node id exactly once and in which the source of every edge
\* precedes its target.
C22_ExecutionOrderTopological ==
    (call.op = "order" /\ Acyclic(workflow))
    => /\ call.res.ok
       /\ \A n \in NodeIds(workflow) :
             Cardinality({i \in DOMAIN call.res.order : call.res.order[i] = n}) = 1
       /\ \A i \in DOMAIN call.res.order : call.res.order[i] \in NodeIds(workflow)
       /\ \A e \in workflow.edges :
             \A i, j \in DOMAIN call.res.order :
                (call.res.order[i] = e.source /\ call.res.order[j] = e.target) => i < j

\* C23: when a node of a workflow failed with error message m, the result of
\* execute_workflow is a failure whose error text contains m (whichever failed
\* node the text is made for, it holds the message of some failed node).
C23_ResultCarriesNodeError ==
    \A r \in DOMAIN runs :
        (runs[r].pc = "done" /\ runs[r].nodes_failed # {})
        => /\ runs[r].result = "failure"
           /\ \A n \in runs[r].nodes_failed :
                 \E k \in runs[r].nodes_failed, i \in DOMAIN execution_failed_at(n) :
                    execution_failed_at(n)[i] = node_error(workflow, runs[r], k)

\* C24: in every run, a node that has been issued has all the nodes it depends
\* on in the run's completed or failed set; a node of a later layer is issued
\* only when every node of the earlier layers is in one of these sets; and
\* while the scheduler waits for a layer, every node of that layer has been
\* issued.
C24_LayerBarrier ==
    \A r \in DOMAIN runs :
        LET run  == runs[r]
            done == run.nodes_completed \cup run.nodes_failed
        IN  /\ \A n \in DOMAIN run.task :
                  run.dispatch_count[n] > 0 => dependencies(workflow)[n] \subseteq done
            /\ \A i, j \in DOMAIN run.layers :
                  (i < j /\ \E n \in run.layers[j] : run.dispatch_count[n] > 0)
                  => run.layers[i] \subseteq done
            /\ run.pc = "gather"
                  => \A n \in run.layers[run.li] :
                        run.dispatch_count[n] > 0 /\ run.task[n] # "none"

\* C24 witness: the scheduler waits at the barrier of a layer of two nodes,
\* both issued, one with its outcome and the other still running
C24_Witness ==
    \E r \in DOMAIN runs : \E n, m \in DOMAIN runs[r].task :
        /\ runs[r].pc = "gather"
        /\ {n, m} \subseteq runs[r].layers[runs[r].li]
        /\ runs[r].task[n] \in {"ok", "fail"}
        /\ runs[r].task[m] = "running"
        /\ runs[r].nodes_completed \cup runs[r].nodes_failed = {}

\* C25: when a call of broadcast or send_node_update has ended, every
\* connection that was in the list from the beginning to the end of the call
\* has been written to exactly once.
C25_PublishSkipsNobody ==
    [][\A p \in Publishers :
          (publish[p].pc = "sending" /\ publish'[p].pc = "done")
          => LET sent == Append(publish[p].sent, publish[p].to) IN
             \A c \in publish[p].stayed :
                Cardinality({i \in DOMAIN sent : sent[i] = c}) = 1]_vars

\* C26: whenever a node update is written to a connection, every update of
\* the same node written to that connection before was produced before it
\* (the running update, then the progress update of the node's task, then the
\* terminal update of the run loop); updates of different nodes are written
\* in any order.
C26_NodeUpdatesInProductionOrder ==
    [][\A c \in Clients : \A m \in delivered'[c] \ delivered[c] :
          LET produced(u) == IF u.status # "running" THEN 3
                             ELSE IF u.progress = 0 THEN 1 ELSE 2
          IN  m.type = "node_update"
              => \A u \in delivered[c] :
                    (u.type = "node_update" /\ u.id = m.id) => produced(u) < produced(m)]_vars

\* C26 witness: a connection has all three updates of node 1, the last of
\* them written after both task updates of node 2, whose terminal update is
\* still to come
C26_Witness ==
    \E c \in Clients :
        /\ {node_update(1, "running", 0), node_update(1, "running", 10),
            node_update(1, "completed", 100),
            node_update(2, "running", 0), node_update(2, "running", 10)}
              \subseteq delivered[c]
        /\ node_update(2, "completed", 100) \notin delivered[c]
        /\ publish[0].pc = "sending"
        /\ publish[0].msg = node_update(2, "completed", 100)
        /\ publish[0].to = c

\* C27: two executions share no mutable state: the per-node status kept for
\* an execution is the one that execution recorded, completed with progress
\* 100 for the nodes of its completed set and error for the nodes of its
\* failed set, whatever another execution does with the same workflow.
C27_ExecutionsShareNoState ==
    \A r \in DOMAIN runs :
        runs[r].pc \in {"layers", "done"}
        => /\ \A n \in runs[r].nodes_completed :
                 node_status[n] = [status |-> "completed", progress |-> 100]
           /\ \A n \in runs[r].nodes_failed : node_status[n].status = "error"

\* C28: every node failure the run loop has recorded, whether the node's
\* execute raised a fault or returned an explicit failure result, has a
\* record in the error log with the node's id and the execution's id.
C28_NodeFailureBecomesErrorRecord ==
    \A r \in DOMAIN runs :
        runs[r].pc = "done"
        => \A n \in runs[r].nodes_failed :
              \E e \in errors : e.node_id = n /\ e.execution_id = runs[r].eid

\* C29: every record of the error log has 0 <= retry_count <= max_retries;
\* a retry request either is accepted and adds one to the retry_count of one
\* record that was recoverable with retry_count < max_retries, or is rejected
\* (404 or 400) and leaves the log as it was; no step changes another field
\* of a record; and a record leaves the log only in a clear_errors step.
C29_RetryCountBounded ==
    /\ [](\A e \in errors : 0 <= e.retry_count /\ e.retry_count <= e.max_retries)
    /\ [][LET retrying == \E error_id \in ErrorIds : retry_error(error_id)
              clearing == \E cutoff_time \in 0 .. MaxErrors : clear_errors(cutoff_time)
              retried  == {e \in errors : /\ e \notin errors'
                                          /\ [e EXCEPT !.retry_count = @ + 1] \in errors'}
          IN  /\ \A e \in errors \ errors' : e \in retried \/ clearing
              /\ \A e \in retried :
                    retrying /\ e.recoverable /\ e.retry_count < e.max_retries
              /\ retrying
                    => \/ /\ response' = Accepted
                          /\ Cardinality(retried) = 1
                          /\ errors' \ errors = {[e EXCEPT !.retry_count = @ + 1] : e \in retried}
                          /\ errors \ errors' = retried
                       \/ /\ response'.code \in {400, 404}
                          /\ errors' = errors]_vars

\* C29 witness: a record has been retried max_retries times and a further
\* retry of it was rejected
C29_Witness ==
    /\ \E e \in errors : e.recoverable /\ e.retry_count = e.max_retries
    /\ response = HTTPException(400, "Maximum retry attempts exceeded")

\* C30: the layer computation of a run ends in one of two ways: with the
\* complete layering (non-empty, pairwise disjoint layers that together hold
\* every node of the workflow), or with a fault that ends the run as a
\* failure before any node was dispatched.
C30_LayeringCompleteOrAborted ==
    \A r \in DOMAIN runs :
        runs[r].ctx
        => \/ /\ \A i \in DOMAIN runs[r].layers : runs[r].layers[i] # {}
              /\ \A i, j \in DOMAIN runs[r].layers :
                    i # j => runs[r].layers[i] \cap runs[r].layers[j] = {}
              /\ UNION {runs[r].layers[i] : i \in DOMAIN runs[r].layers} = NodeIds(workflow)
              /\ runs[r].error \notin {"ValueError", "KeyError"}
           \/ /\ runs[r].pc = "done"
              /\ runs[r].result = "failure"
              /\ runs[r].error \in {"ValueError", "KeyError"}
              /\ runs[r].layers = <<>>
              /\ \A n \in DOMAIN runs[r].dispatch_count : runs[r].dispatch_count[n] = 0
              /\ runs[r].nodes_completed \cup runs[r].nodes_failed = {}

\* C30 witness: a run of a workflow whose second node depends on the first
\* has ended with the fault of the empty layer, no node dispatched
C30_Witness ==
    \E r \in DOMAIN runs :
        /\ runs[r].ctx
        /\ runs[r].pc = "done"
        /\ runs[r].error = "ValueError"
        /\ workflow.edges # {}
        /\ \A n \in DOMAIN runs[r].dispatch_count : runs[r].dispatch_count[n] = 0

\* C31: the step that processes a layer of a run publishes the execution
\* update whose progress is 100 * |completed| / |nodes| (in whole percent);
\* that progress is not below the progress the run had before, lies within
\* 0 .. 100, and is 100 exactly when every node of the workflow is in the
\* completed set; a run of a workflow without nodes ends as a success with
\* no layer processed (the division is never evaluated for it).
C31_ProgressPublished ==
    /\ [](\A r \in DOMAIN runs :
            (runs[r].ctx /\ NodeIds(workflow) = {})
            => runs[r].pc = "done" /\ runs[r].result = "success" /\ runs[r].progress = 0)
    /\ [][\A r \in DOMAIN runs :
            (r \in DOMAIN runs' /\ runs[r].pc = "gather" /\ runs'[r].pc = "layers")
            => LET progress == runs'[r].progress
                   published == {m \in emitted' : /\ m.type = "execution_update"
                                                  /\ m.id = runs[r].eid
                                                  /\ m \notin emitted}
               IN  /\ progress * Len(workflow.nodes)
                         <= 100 * Cardinality(runs'[r].nodes_completed)
                   /\ 100 * Cardinality(runs'[r].nodes_completed)
                         < (progress + 1) * Len(workflow.nodes)
                   /\ progress_update(runs[r].eid, runs'[r].status, progress) \in emitted'
                   /\ published \subseteq
                         {progress_update(runs[r].eid, runs'[r].status, progress)}
                   /\ runs[r].progress <= progress
                   /\ 0 <= progress /\ progress <= 100
                   /\ progress = 100 <=> runs'[r].nodes_completed = NodeIds(workflow)]_vars


\* C32: no two run loops started by start or resume requests for the same
\* execution id are in their layer loop at the same time, and while a run
\* loop is in its layer loop the run-table entry of its execution id is not
\* the context of another of these run loops.
C32_OneRunLoopPerExecution ==
    \A r, q \in DOMAIN runs :
        (/\ q # r
         /\ runs[q].eid = runs[r].eid
         /\ {runs[r].origin, runs[q].origin} \subseteq {"start", "resume"}
         /\ runs[r].pc \in {"gather", "layers"})
        => /\ runs[q].pc \notin {"gather", "layers"}
           /\ running_executions[runs[r].eid] # q

\* C33: every run loop started by a start or resume request ends (run loops
\* are never removed from the history and one that has ended stays ended, so
\* from some moment on all of them have ended), and the step in which one
\* ends leaves the run table without an entry for its execution id and the
\* execution record with status completed or error.
C33_RunLoopExitsAndReleases ==
    /\ <>[](\A r \in DOMAIN runs : runs[r].pc = "done")
    /\ [][\A r \in DOMAIN runs :
            (/\ r \in DOMAIN runs'
             /\ runs[r].origin \in {"start", "resume"}
             /\ runs[r].pc # "done"
             /\ runs'[r].pc = "done")
            => /\ running_executions'[runs[r].eid] = 0
               /\ executions_db'[runs[r].eid].status \in {"completed", "error"}]_vars

\* C33 witness: a run loop started by resume has ended with a failed node
\* while the run loop started for the same execution is still in its layer
\* loop; the run table has no entry for the execution
C33_Witness ==
    \E r, q \in DOMAIN runs :
        /\ runs[r].origin = "resume"
        /\ runs[r].pc = "done"
        /\ runs[r].nodes_failed # {}
        /\ runs[q].eid = runs[r].eid
        /\ runs[q].pc = "gather"
        /\ running_executions[runs[r].eid] = 0
        /\ executions_db[runs[r].eid].status = "error"

\* C34: in every execution context the completed and the failed set are
\* disjoint subsets of the workflow's node ids; a node id is in the completed
\* set exactly when the node's status is completed with progress 100, and in
\* the failed set exactly when its status is error; the sets only grow, and
\* they change only in the result processing after the barrier, when no task
\* of the layer is in flight.
C34_CompletedAndFailedSets ==
    /\ [](\A r \in DOMAIN runs :
             runs[r].ctx
             => /\ runs[r].nodes_completed \cap runs[r].nodes_failed = {}
                /\ runs[r].nodes_completed \cup runs[r].nodes_failed
                      \subseteq NodeIds(workflow)
                /\ \A n \in NodeIds(workflow) :
                      /\ n \in runs[r].nodes_completed
                            <=> node_status[n] = [status |-> "completed", progress |-> 100]
                      /\ n \in runs[r].nodes_failed <=> node_status[n].status = "error")
    /\ [][\A r \in DOMAIN runs :
            /\ runs[r].nodes_completed \subseteq runs'[r].nodes_completed
            /\ runs[r].nodes_failed \subseteq runs'[r].nodes_failed
            /\ (\/ runs'[r].nodes_completed # runs[r].nodes_completed
                \/ runs'[r].nodes_failed # runs[r].nodes_failed)
               => /\ runs[r].pc = "gather"
                  /\ \A n \in DOMAIN runs[r].task : runs[r].task[n] # "running"]_vars

\* C35: the records of the error log have pairwise distinct ids, so that an
\* id names a single record.
C35_ErrorIdsDistinct ==
    \A e \in errors, f \in errors : e.id = f.id => e = f

====
